---- MODULE Spec2Model ----
(***************************************************************************)
(* CodeStream Power-Up for Trello: the "Start Work" card button            *)
(* (js/client.js), the settings popup (js/settings.js) and the IDE         *)
(* catalogue (IDEs).                                                       *)
(*                                                                         *)
(* JavaScript strings are sequences of one-character strings, so that      *)
(* encodeURIComponent, the regular expression test and the splitting of a  *)
(* link are computed character by character.  The value undefined is the   *)
(* one-element sequence Undefined, which is no string.                     *)
(***************************************************************************)
EXTENDS Integers, Sequences, FiniteSets, TLC

Undefined == <<"undefined">>

\* JavaScript truthiness of a string or undefined
Truthy(v) == v # Undefined /\ v # <<>>

-----------------------------------------------------------------------------
(* The IDE catalogue *)

IDEs ==
  <<
    [ ideName |-> "VS Code",
      protocol |-> <<"v", "s", "c", "o", "d", "e", ":", "/", "/", "c", "o", "d", "e", "s", "t", "r", "e", "a", "m", ".", "c", "o", "d", "e", "s", "t", "r", "e", "a", "m", "/">>,
      moniker |-> <<"v", "s", "c">>,
      downloadUrl |-> "https://marketplace.visualstudio.com/items?itemName=CodeStream.codestream" ],
    [ ideName |-> "VS Code Insiders",
      protocol |-> <<"v", "s", "c", "o", "d", "e", "-", "i", "n", "s", "i", "d", "e", "r", "s", ":", "/", "/", "c", "o", "d", "e", "s", "t", "r", "e", "a", "m", ".", "c", "o", "d", "e", "s", "t", "r", "e", "a", "m", "/">>,
      moniker |-> <<"v", "s", "c", "-", "i", "n", "s", "i", "d", "e", "r", "s">>,
      downloadUrl |-> "https://marketplace.visualstudio.com/items?itemName=CodeStream.codestream" ],
    [ ideName |-> "Visual Studio",
      protocol |-> <<"c", "o", "d", "e", "s", "t", "r", "e", "a", "m", "-", "v", "s", ":", "/", "/", "c", "o", "d", "e", "s", "t", "r", "e", "a", "m", "/">>,
      moniker |-> <<"v", "s">>,
      downloadUrl |-> "https://marketplace.visualstudio.com/items?itemName=CodeStream.codestream-vs",
      sepAfter |-> TRUE ],
    [ ideName |-> "Android Studio",
      protocol |-> <<"j", "e", "t", "b", "r", "a", "i", "n", "s", ":", "/", "/", "s", "t", "u", "d", "i", "o", "/", "c", "o", "d", "e", "s", "t", "r", "e", "a", "m", "/">>,
      moniker |-> <<"j", "b", "-", "s", "t", "u", "d", "i", "o">>,
      downloadUrl |-> "https://plugins.jetbrains.com/plugin/12206-codestream" ],
    [ ideName |-> "IntelliJ IDEA",
      protocol |-> <<"j", "e", "t", "b", "r", "a", "i", "n", "s", ":", "/", "/", "i", "d", "e", "a", "/", "c", "o", "d", "e", "s", "t", "r", "e", "a", "m", "/">>,
      moniker |-> <<"j", "b", "-", "i", "d", "e", "a">>,
      downloadUrl |-> "https://plugins.jetbrains.com/plugin/12206-codestream" ],
    [ ideName |-> "PyCharm",
      protocol |-> <<"j", "e", "t", "b", "r", "a", "i", "n", "s", ":", "/", "/", "p", "y", "c", "h", "a", "r", "m", "/", "c", "o", "d", "e", "s", "t", "r", "e", "a", "m", "/">>,
      moniker |-> <<"j", "b", "-", "p", "y", "c", "h", "a", "r", "m">>,
      downloadUrl |-> "https://plugins.jetbrains.com/plugin/12206-codestream" ],
    [ ideName |-> "WebStorm",
      protocol |-> <<"j", "e", "t", "b", "r", "a", "i", "n", "s", ":", "/", "/", "w", "e", "b", "-", "s", "t", "o", "r", "m", "/", "c", "o", "d", "e", "s", "t", "r", "e", "a", "m", "/">>,
      moniker |-> <<"j", "b", "-", "w", "e", "b", "-", "s", "t", "o", "r", "m">>,
      downloadUrl |-> "https://plugins.jetbrains.com/plugin/12206-codestream" ],
    [ ideName |-> "PhpStorm",
      protocol |-> <<"j", "e", "t", "b", "r", "a", "i", "n", "s", ":", "/", "/", "p", "h", "p", "-", "s", "t", "o", "r", "m", "/", "c", "o", "d", "e", "s", "t", "r", "e", "a", "m", "/">>,
      moniker |-> <<"j", "b", "-", "p", "h", "p", "s", "t", "o", "r", "m">>,
      downloadUrl |-> "https://plugins.jetbrains.com/plugin/12206-codestream" ],
    [ ideName |-> "RubyMine",
      protocol |-> <<"j", "e", "t", "b", "r", "a", "i", "n", "s", ":", "/", "/", "r", "u", "b", "y", "m", "i", "n", "e", "/", "c", "o", "d", "e", "s", "t", "r", "e", "a", "m", "/">>,
      moniker |-> <<"j", "b", "-", "r", "u", "b", "y", "m", "i", "n", "e">>,
      downloadUrl |-> "https://plugins.jetbrains.com/plugin/12206-codestream" ],
    [ ideName |-> "Rider",
      protocol |-> <<"j", "e", "t", "b", "r", "a", "i", "n", "s", ":", "/", "/", "r", "d", "/", "c", "o", "d", "e", "s", "t", "r", "e", "a", "m", "/">>,
      moniker |-> <<"j", "b", "-", "r", "i", "d", "e", "r">>,
      downloadUrl |-> "https://plugins.jetbrains.com/plugin/12206-codestream" ],
    [ ideName |-> "CLion",
      protocol |-> <<"j", "e", "t", "b", "r", "a", "i", "n", "s", ":", "/", "/", "c", "l", "i", "o", "n", "/", "c", "o", "d", "e", "s", "t", "r", "e", "a", "m", "/">>,
      moniker |-> <<"j", "b", "-", "c", "l", "i", "o", "n">>,
      downloadUrl |-> "https://plugins.jetbrains.com/plugin/12206-codestream" ],
    [ ideName |-> "GoLand",
      protocol |-> <<"j", "e", "t", "b", "r", "a", "i", "n", "s", ":", "/", "/", "g", "o", "l", "a", "n", "d", "/", "c", "o", "d", "e", "s", "t", "r", "e", "a", "m", "/">>,
      moniker |-> <<"j", "b", "-", "g", "o", "l", "a", "n", "d">>,
      downloadUrl |-> "https://plugins.jetbrains.com/plugin/12206-codestream" ],
    [ ideName |-> "DataGrip",
      protocol |-> <<"j", "e", "t", "b", "r", "a", "i", "n", "s", ":", "/", "/", "d", "a", "t", "a", "g", "r", "i", "p", "/", "c", "o", "d", "e", "s", "t", "r", "e", "a", "m", "/">>,
      moniker |-> <<"j", "b", "-", "d", "a", "t", "a", "g", "r", "i", "p">>,
      downloadUrl |-> "https://plugins.jetbrains.com/plugin/12206-codestream" ],
    [ ideName |-> "AppCode",
      protocol |-> <<"j", "e", "t", "b", "r", "a", "i", "n", "s", ":", "/", "/", "a", "p", "p", "c", "o", "d", "e", "/", "c", "o", "d", "e", "s", "t", "r", "e", "a", "m", "/">>,
      moniker |-> <<"j", "b", "-", "a", "p", "p", "c", "o", "d", "e">>,
      downloadUrl |-> "https://plugins.jetbrains.com/plugin/12206-codestream",
      sepAfter |-> TRUE ],
    [ ideName |-> "Atom",
      protocol |-> <<"a", "t", "o", "m", ":", "/", "/", "c", "o", "d", "e", "s", "t", "r", "e", "a", "m", "/">>,
      moniker |-> <<"a", "t", "o", "m">>,
      downloadUrl |-> "https://atom.io/packages/codestream" ]
  >>

-----------------------------------------------------------------------------
(* encodeURIComponent *)

LowerCase == {"a", "b", "c", "d", "e", "f", "g", "h", "i", "j", "k", "l", "m", "n", "o", "p", "q", "r", "s", "t", "u", "v", "w", "x", "y", "z"}

UpperCase == {"A", "B", "C", "D", "E", "F", "G", "H", "I", "J", "K", "L", "M", "N", "O", "P", "Q", "R", "S", "T", "U", "V", "W", "X", "Y", "Z"}

Digits == {"0", "1", "2", "3", "4", "5", "6", "7", "8", "9"}

\* the characters encodeURIComponent leaves alone
Unreserved == LowerCase \cup UpperCase \cup Digits \cup {"-", "_", ".", "!", "~", "*", "'", "(", ")"}

\* the escape sequences of the other ASCII characters the model's strings use
PercentCode ==
  [c \in {" ", "#", "%", "&", "+", ",", "/", ":", ";", "=", "?", "@"} |->
     CASE c = " " -> <<"%", "2", "0">>
       [] c = "#" -> <<"%", "2", "3">>
       [] c = "%" -> <<"%", "2", "5">>
       [] c = "&" -> <<"%", "2", "6">>
       [] c = "+" -> <<"%", "2", "B">>
       [] c = "," -> <<"%", "2", "C">>
       [] c = "/" -> <<"%", "2", "F">>
       [] c = ":" -> <<"%", "3", "A">>
       [] c = ";" -> <<"%", "3", "B">>
       [] c = "=" -> <<"%", "3", "D">>
       [] c = "?" -> <<"%", "3", "F">>
       [] c = "@" -> <<"%", "4", "0">>]

RECURSIVE encodeURIComponent(_)
encodeURIComponent(s) ==
  IF s = <<>> THEN <<>>
  ELSE (IF Head(s) \in Unreserved THEN <<Head(s)>> ELSE PercentCode[Head(s)])
         \o encodeURIComponent(Tail(s))

-----------------------------------------------------------------------------
(* String literals of js/client.js *)

S_startWork == <<"s", "t", "a", "r", "t", "W", "o", "r", "k">>

S_open == <<"o", "p", "e", "n">>

S_url == <<"u", "r", "l">>

S_providerId == <<"p", "r", "o", "v", "i", "d", "e", "r", "I", "d">>

S_trello == <<"t", "r", "e", "l", "l", "o", "*", "c", "o", "m">>

S_marker == <<"?", "1", "=", "1", "&">>

\* window.location.href of the page the callback runs in: sample pages
Hrefs ==
  { <<"h", "t", "t", "p", "s", ":", "/", "/", "t", "r", "e", "l", "l", "o", ".", "c", "o", "m", "/", "c", "/", "x", "Y", "z", "9">>,
    <<"h", "t", "t", "p", "s", ":", "/", "/", "t", "r", "e", "l", "l", "o", ".", "c", "o", "m", "/", "c", "/", "x", "Y", "z", "9", "?", "a", "=", "b", "&", "c", "=", "d">>,
    <<"h", "t", "t", "p", "s", ":", "/", "/", "t", "r", "e", "l", "l", "o", ".", "c", "o", "m", "/", "b", "/", "Q", "7", "#", "5", "0", "%", "2", "5">> }

Boards == {"B1", "B2"}

\* the card in context when the button is clicked, as t.card would give it
Cards ==
  { [id |-> <<"a", "b", "c", "1", "2", "3">>, shortLink |-> <<"x", "Y", "z", "9">>, name |-> <<"F", "i", "x", " ", "b", "u", "g">>, desc |-> <<>>,
     url |-> <<"h", "t", "t", "p", "s", ":", "/", "/", "t", "r", "e", "l", "l", "o", ".", "c", "o", "m", "/", "c", "/", "x", "Y", "z", "9">>],
    [id |-> <<"d", "4">>, shortLink |-> <<"Q", "q", "1">>, name |-> <<>>, desc |-> <<"a", "&", "b", "=", "c">>,
     url |-> <<"h", "t", "t", "p", "s", ":", "/", "/", "t", "r", "e", "l", "l", "o", ".", "c", "o", "m", "/", "c", "/", "Q", "q", "1">>] }

-----------------------------------------------------------------------------
(* The host's store, as js/client.js documents it:                         *)
(*   t.set('scope', 'visibility', 'key', 'value')                          *)
(*   t.get('scope', 'visibility', 'key')                                   *)
(* An entry of a board's data is named by <<visibility, key>>; an argument *)
(* a call leaves out is undefined.                                         *)

\* what the host may already hold for a board when the page loads
HostValues == {<<"v", "s">>, <<"z", "z", "z">>, <<"4", "2">>}

StoreGet(data, visibility, key) ==
  IF <<visibility, key>> \in DOMAIN data THEN data[<<visibility, key>>] ELSE Undefined

StoreSet(data, visibility, key, value) ==
  [e \in DOMAIN data \cup {<<visibility, key>>} |->
     IF e = <<visibility, key>> THEN value ELSE data[e]]

-----------------------------------------------------------------------------
VARIABLES
  board,          \* the board the page is on (the scope 'board' of t)
  href,           \* window.location.href
  protocolStart,  \* cardButtonCallback: var protocolStart
  route,          \* cardButtonCallback: var route
  protocol,       \* cardButtonCallback: var protocol, the link built
  launchError,    \* the exception cardButtonCallback ended with
  store,          \* the host's store: board -> entries
  popup,          \* the settings popup: "closed" or "open"
  IDESelector,    \* the value of the select element #ide
  saves,          \* the t.set calls in flight
  saveOutcome     \* how the last t.set of the open popup settled

vars ==
  <<board, href, protocolStart, route, protocol, launchError, store, popup,
    IDESelector, saves, saveOutcome>>

launchVars == <<protocolStart, route, protocol, launchError>>

settingsVars == <<store, popup, IDESelector, saves, saveOutcome>>

\* route before the callback has run
NoRoute == [controller |-> Undefined]

-----------------------------------------------------------------------------
(* js/client.js: cardButtonCallback *)

\* var ide
ide ==
  [ ideName |-> "VS Code",
    protocol |-> <<"v", "s", "c", "o", "d", "e", ":", "/", "/", "c", "o", "d", "e", "s", "t", "r", "e", "a", "m", ".", "c", "o", "d", "e", "s", "t", "r", "e", "a", "m", "/">>,
    moniker |-> <<"v", "s", "c">>,
    downloadUrl |-> "https://marketplace.visualstudio.com/items?itemName=CodeStream.codestream" ]

\* var route; a property an object lacks is a field the record lacks
LaunchRoute(h) ==
  [ controller |-> S_startWork,
    action |-> S_open,
    query |-> << [key |-> S_url, value |-> encodeURIComponent(h)],
                 [key |-> S_providerId, value |-> S_trello] >> ]

\* the loop with "&" after every pair, the last one too
RECURSIVE QueryLoop_TrailingSeparator(_, _, _)
QueryLoop_TrailingSeparator(query, i, acc) ==
  IF i < Len(query)
  THEN LET q == query[i + 1]
       IN QueryLoop_TrailingSeparator(query, i + 1,
            acc \o q.key \o <<"=">> \o q.value \o <<"&">>)
  ELSE acc

\* the loop encoding each value once more
RECURSIVE QueryLoop_EncodesValue(_, _, _)
QueryLoop_EncodesValue(query, i, acc) ==
  IF i < Len(query)
  THEN LET q == query[i + 1]
           a == acc \o q.key \o <<"=">> \o encodeURIComponent(q.value)
       IN QueryLoop_EncodesValue(query, i + 1,
            IF i + 1 < Len(query) THEN a \o <<"&">> ELSE a)
  ELSE acc

\* for (var i = 0; i < len; i++): the loop from index i, acc being protocol
RECURSIVE QueryLoop(_, _, _)
QueryLoop(query, i, acc) ==
  IF i < Len(query)
  THEN LET q == query[i + 1]
           a == acc \o q.key \o <<"=">> \o q.value
       IN QueryLoop(query, i + 1, IF i + 1 < Len(query) THEN a \o <<"&">> ELSE a)
  ELSE acc

\* the assembly of the link: var protocol = protocolStart + route.controller; ...
BuildLink(start, r) ==
  LET p0 == start \o r.controller
      p1 == IF "id" \in DOMAIN r /\ Truthy(r.id) THEN p0 \o <<"/">> \o r.id ELSE p0
      p2 == IF "action" \in DOMAIN r /\ Truthy(r.action)
            THEN p1 \o <<"/">> \o r.action ELSE p1
  IN IF "query" \in DOMAIN r /\ Len(r.query) > 0
     THEN QueryLoop(r.query, 0, p2 \o S_marker)
     ELSE p2

\* the assignment taking the prefix for the link
AssignLocation_Prefix(built) ==
  /\ launchError' = "none"
  /\ href' = protocolStart'

\* window.location.href = url: no url is declared, so reading it throws a
\* ReferenceError and nothing is assigned
AssignLocation(built) ==
  /\ launchError' = "ReferenceError"
  /\ href' = href

cardButtonCallback(t) ==
  /\ protocolStart' = ide.protocol
  /\ route' = LaunchRoute(href)
  /\ protocol' = BuildLink(ide.protocol, LaunchRoute(href))
  /\ AssignLocation(BuildLink(ide.protocol, LaunchRoute(href)))
  /\ UNCHANGED <<board, settingsVars>>

-----------------------------------------------------------------------------
(* js/settings.js and the "show-settings" capability *)

\* the moniker options of the select element
Options == {IDEs[i].moniker : i \in DOMAIN IDEs}

\* the option a fresh select element shows
DefaultOption == IDEs[1].moniker

\* the options the user is taken to pick
SelectChoices == {IDEs[1].moniker, IDEs[3].moniker}

\* /[a-z]+/.test(s)
RegexTest(s) == \E i \in DOMAIN s : s[i] \in LowerCase

\* IDESelector.value = v: the option with that value is selected; with no
\* such option none is, and the value reads ""
SelectAssign(v) == IF v \in Options THEN v ELSE <<>>

\* "show-settings": t.popup({url: "./settings.html"}) loads js/settings.js
ShowSettings ==
  /\ popup = "closed"
  /\ popup' = "open"
  /\ IDESelector' = DefaultOption
  /\ saveOutcome' = "none"
  /\ UNCHANGED <<board, href, launchVars, store, saves>>

\* t.get("board", "ide") on the data of the board
LoadPreference(data) == StoreGet(data, "ide", Undefined)

\* t.render(...): t.get("board", "ide"), then the spread callback
Render ==
  /\ popup = "open"
  /\ LET savedIde == LoadPreference(store[board])
     IN IDESelector' = IF Truthy(savedIde) /\ RegexTest(savedIde)
                       THEN SelectAssign(savedIde)
                       ELSE IDESelector
  /\ UNCHANGED <<board, href, launchVars, store, popup, saves, saveOutcome>>

\* the user picks an option of the select element
SelectOption(m) ==
  /\ popup = "open"
  /\ IDESelector' = m
  /\ UNCHANGED <<board, href, launchVars, store, popup, saves, saveOutcome>>

MaxSaves == 2

FreeIds == {i \in 1..MaxSaves : \A s \in saves : s.id # i}

\* click on #save: t.set("board", "ide", IDESelector.value) is sent
SaveClick ==
  /\ popup = "open"
  /\ FreeIds # {}
  /\ saves' = saves \cup
       {[id |-> CHOOSE i \in FreeIds : \A j \in FreeIds : i <= j,
         visibility |-> "ide", key |-> IDESelector, value |-> Undefined,
         live |-> TRUE]}
  /\ UNCHANGED <<board, href, launchVars, store, popup, IDESelector, saveOutcome>>

\* t.closePopup(): the popup and its page are gone; the calls it has in
\* flight stay with the host
ClosePopup ==
  /\ popup' = "closed"
  /\ IDESelector' = Undefined

\* the host completes a t.set: the entry is written, and .then(...) runs
\* if the page that made the call is still there
SetResolve(s) ==
  /\ s \in saves
  /\ store' = [store EXCEPT ![board] = StoreSet(@, s.visibility, s.key, s.value)]
  /\ IF s.live
     THEN /\ ClosePopup
          /\ saves' = {[x EXCEPT !.live = FALSE] : x \in saves \ {s}}
          /\ saveOutcome' = "fulfilled"
     ELSE /\ saves' = saves \ {s}
          /\ UNCHANGED <<popup, IDESelector, saveOutcome>>
  /\ UNCHANGED <<board, href, launchVars>>

\* a failed t.set closing the popup as a completed one does
SetReject_Closes(s) ==
  /\ s \in saves
  /\ IF s.live
     THEN /\ ClosePopup
          /\ saves' = {[x EXCEPT !.live = FALSE] : x \in saves \ {s}}
          /\ saveOutcome' = "rejected"
     ELSE /\ saves' = saves \ {s}
          /\ UNCHANGED <<popup, IDESelector, saveOutcome>>
  /\ UNCHANGED <<board, href, launchVars, store>>

\* the host fails a t.set: nothing is written, and .then(...) does not run
SetReject(s) ==
  /\ s \in saves
  /\ saves' = saves \ {s}
  /\ saveOutcome' = IF s.live THEN "rejected" ELSE saveOutcome
  /\ UNCHANGED <<board, href, launchVars, store, popup, IDESelector>>

-----------------------------------------------------------------------------
(* The program *)

Init ==
  /\ board \in Boards
  /\ href \in Hrefs
  /\ protocolStart = Undefined
  /\ route = NoRoute
  /\ protocol = Undefined
  /\ launchError = "none"
  /\ \E v \in HostValues \cup {Undefined} :
       store = [b \in Boards |->
                  IF b = board /\ v # Undefined
                  THEN StoreSet(<<>>, "ide", Undefined, v)
                  ELSE <<>>]
  /\ popup = "closed"
  /\ IDESelector = Undefined
  /\ saves = {}
  /\ saveOutcome = "none"

Next ==
  \/ \E c \in Cards : cardButtonCallback([board |-> board, card |-> c])
  \/ ShowSettings
  \/ Render
  \/ \E m \in SelectChoices : SelectOption(m)
  \/ SaveClick
  \/ \E s \in saves : SetResolve(s)
  \/ \E s \in saves : SetReject(s)

Spec == Init /\ [][Next]_vars

-----------------------------------------------------------------------------
(* The link assembly on its own: protocolStart and route drawn from bounded *)
(* sets, the routes of cardButtonCallback among them                        *)

MaxQuery == 2

\* strings before encoding
RawValues == {<<>>, <<"a", "&", "b">>, <<"=", "/", " ">>}

BuildValues == RawValues \cup {encodeURIComponent(v) : v \in RawValues}

BuildPairs == [key : {S_url, <<"i", "d">>}, value : BuildValues]

BuildQueries == UNION {[1..n -> BuildPairs] : n \in 0..MaxQuery}

\* a record with field f among S, or without it
OptField(f, S) == {<<>>} \cup {f :> v : v \in S}

BuildRoutes ==
  { ("controller" :> c) @@ i @@ a @@ qs :
      c \in {S_startWork, <<"r", "e", "p", "o">>},
      i \in OptField("id", {<<>>, <<"4", "2">>}),
      a \in OptField("action", {<<>>, S_open}),
      qs \in OptField("query", BuildQueries) }
  \cup {LaunchRoute(h) : h \in Hrefs}

BuildStarts == {IDEs[1].protocol, IDEs[15].protocol}

\* the assembly applied to the protocolStart and route drawn
Build ==
  /\ protocol = Undefined
  /\ protocol' = BuildLink(protocolStart, route)
  /\ UNCHANGED <<board, href, protocolStart, route, launchError, settingsVars>>

InitBuild ==
  /\ board = "B1"
  /\ href = CHOOSE h \in Hrefs : TRUE
  /\ protocolStart \in BuildStarts
  /\ route \in BuildRoutes
  /\ protocol = Undefined
  /\ launchError = "none"
  /\ store = [b \in Boards |-> <<>>]
  /\ popup = "closed"
  /\ IDESelector = Undefined
  /\ saves = {}
  /\ saveOutcome = "none"

NextBuild == Build

SpecBuild == InitBuild /\ [][NextBuild]_vars

-----------------------------------------------------------------------------
(* What the receiver of a link does with it *)

URIError == <<"URIError">>

\* decodeURIComponent: each escape sequence gives its character back; a "%"
\* that starts none is an error
RECURSIVE DecodeFrom(_, _)
DecodeFrom(s, acc) ==
  IF s = <<>> THEN acc
  ELSE IF Head(s) # "%" THEN DecodeFrom(Tail(s), Append(acc, Head(s)))
  ELSE IF Len(s) >= 3 /\ \E c \in DOMAIN PercentCode : PercentCode[c] = SubSeq(s, 1, 3)
  THEN DecodeFrom(SubSeq(s, 4, Len(s)),
                  Append(acc, CHOOSE c \in DOMAIN PercentCode : PercentCode[c] = SubSeq(s, 1, 3)))
  ELSE URIError

decodeURIComponent(s) == DecodeFrom(s, <<>>)

\* the index of the first ch in s, 0 when there is none
FirstIndex(s, ch) ==
  IF \E i \in DOMAIN s : s[i] = ch
  THEN CHOOSE i \in DOMAIN s : s[i] = ch /\ \A j \in 1..(i - 1) : s[j] # ch
  ELSE 0

\* s split at every ch
RECURSIVE SplitAt(_, _)
SplitAt(s, ch) ==
  LET i == FirstIndex(s, ch)
  IN IF i = 0 THEN <<s>>
     ELSE <<SubSeq(s, 1, i - 1)>> \o SplitAt(SubSeq(s, i + 1, Len(s)), ch)

\* a key=value text split at its first "="
PairOf(s) ==
  LET i == FirstIndex(s, "=")
  IN IF i = 0 THEN [key |-> s, value |-> <<>>]
     ELSE [key |-> SubSeq(s, 1, i - 1), value |-> SubSeq(s, i + 1, Len(s))]

\* the part of a link before its first "?"
PathOf(link) ==
  LET i == FirstIndex(link, "?")
  IN IF i = 0 THEN link ELSE SubSeq(link, 1, i - 1)

\* the pairs after the first "?" of a link, the marker pair 1=1 among them
QueryPairs(link) ==
  LET i == FirstIndex(link, "?")
  IN IF i = 0 THEN <<>>
     ELSE LET parts == SplitAt(SubSeq(link, i + 1, Len(link)), "&")
          IN [k \in DOMAIN parts |-> PairOf(parts[k])]

HasPrefix(s, p) == Len(s) >= Len(p) /\ SubSeq(s, 1, Len(p)) = p

Built == protocol # Undefined

RouteQuery == IF "query" \in DOMAIN route THEN route.query ELSE <<>>

-----------------------------------------------------------------------------
(* C5 *)

\* a field that is there and is not the empty string
Present(r, f) == f \in DOMAIN r /\ r[f] # <<>>

RECURSIVE JoinPairs(_)
JoinPairs(qs) ==
  IF qs = <<>> THEN <<>>
  ELSE Head(qs).key \o <<"=">> \o Head(qs).value
         \o (IF Tail(qs) = <<>> THEN <<>> ELSE <<"&">> \o JoinPairs(Tail(qs)))

\* C5: the link built is the prefix, the controller, "/" and the resource id
\* if there is one, "/" and the action if there is one, and, only for a
\* non-empty sequence of query parameters, "?1=1&" and the key=value pairs in
\* their order joined by "&" with none after the last; with no query
\* parameter the link holds no "?"
C5_LinkFormat ==
  Built =>
    /\ protocol =
         protocolStart \o route.controller
           \o (IF Present(route, "id") THEN <<"/">> \o route.id ELSE <<>>)
           \o (IF Present(route, "action") THEN <<"/">> \o route.action ELSE <<>>)
           \o (IF RouteQuery # <<>> THEN S_marker \o JoinPairs(RouteQuery) ELSE <<>>)
    /\ RouteQuery = <<>> => \A i \in DOMAIN protocol : protocol[i] # "?"

C5_Witness ==
  /\ Built
  /\ Present(route, "id")
  /\ Present(route, "action")
  /\ Len(RouteQuery) = MaxQuery

-----------------------------------------------------------------------------
(* C6 *)

PreImages == RawValues \cup Hrefs \cup {S_trello}

AllEncoded(qs) ==
  \A i \in DOMAIN qs : \E v \in PreImages : qs[i].value = encodeURIComponent(v)

-----------------------------------------------------------------------------
(* C1 *)

\* the catalogue record a stored preference stands for: the one with that
\* moniker, the first record when there is none
ResolveIDE(preference) ==
  IF \E i \in DOMAIN IDEs : IDEs[i].moniker = preference
  THEN IDEs[CHOOSE i \in DOMAIN IDEs : IDEs[i].moniker = preference]
  ELSE IDEs[1]

\* C1: the link a click on "Start Work" builds starts with the protocol of
\* the catalogue record whose moniker is the preference stored for the
\* board (as the settings page loads it), and with the protocol of the first
\* record when none is stored or the stored value is no moniker
C1_PreferredProtocol ==
  [][\A c \in Cards :
       cardButtonCallback([board |-> board, card |-> c])
         => HasPrefix(protocol', ResolveIDE(LoadPreference(store[board])).protocol)]_vars

-----------------------------------------------------------------------------
(* C2 *)

\* C2: once the callback has run, window.location.href is the link it built
C2_NavigatesToLink == launchError # "none" \/ Built => href = protocol

-----------------------------------------------------------------------------
(* C3 *)

\* C3: when a save completes, loading the preference of the board gives the
\* moniker that was saved
C3_RoundTrip ==
  [][\A s \in saves :
       SetResolve(s) => LoadPreference(store'[board]) = s.key]_vars

-----------------------------------------------------------------------------
(* C4 *)

\* C4: the link built for a card is <protocol>startWork/open and, after the
\* marker pair, the keys providerId, id, tokenId, title, body, url in this
\* order, whose values decode to the provider literal and the card's id,
\* short link, name, description and url; an empty field keeps its key
C4_CardQuery ==
  [][\A c \in Cards :
       cardButtonCallback([board |-> board, card |-> c])
         => LET pairs == QueryPairs(protocol')
                want == << [key |-> S_providerId, value |-> S_trello],
                           [key |-> <<"i", "d">>, value |-> c.id],
                           [key |-> <<"t", "o", "k", "e", "n", "I", "d">>, value |-> c.shortLink],
                           [key |-> <<"t", "i", "t", "l", "e">>, value |-> c.name],
                           [key |-> <<"b", "o", "d", "y">>, value |-> c.desc],
                           [key |-> S_url, value |-> c.url] >>
            IN /\ PathOf(protocol') = ide.protocol \o S_startWork \o <<"/">> \o S_open
               /\ Len(pairs) = Len(want) + 1
               /\ \A i \in DOMAIN want :
                    /\ pairs[i + 1].key = want[i].key
                    /\ decodeURIComponent(pairs[i + 1].value) = want[i].value]_vars

-----------------------------------------------------------------------------
(* C7 *)

\* C7: at most one t.set of the preference is in flight
C7_OneSaveInFlight == Cardinality(saves) <= 1

-----------------------------------------------------------------------------
(* C8 *)

\* C8: the select element of an open settings popup is on a catalogue moniker
C8_SelectorOnMoniker == popup = "open" => IDESelector \in Options

-----------------------------------------------------------------------------
(* C9 *)

\* C9: the popup closes only in a step that completes a t.set of its page,
\* the entry written; a step in which a t.set of its page fails leaves the
\* popup open and the store as it was
C9_CloseOnlyAfterWrite ==
  [][/\ popup = "open" /\ popup' = "closed"
        => \E s \in saves :
             /\ s.live
             /\ s \notin saves'
             /\ <<s.visibility, s.key>> \in DOMAIN store'[board]
             /\ StoreGet(store'[board], s.visibility, s.key) = s.value
             /\ saveOutcome' = "fulfilled"
     /\ saveOutcome' = "rejected" /\ (\E s \in saves : s.live /\ s \notin saves')
        => /\ popup = "open"
           /\ popup' = "open"
           /\ store' = store]_vars

\* an earlier save completed and closed the popup; in the popup opened
\* again a save has failed, and the popup is still open
C9_Witness ==
  /\ saveOutcome = "rejected"
  /\ popup = "open"
  /\ saves = {}
  /\ \E m \in SelectChoices : <<"ide", m>> \in DOMAIN store[board]

-----------------------------------------------------------------------------
(* C10 *)

====
